---- MODULE Spec2Model ----
(***************************************************************************)
(* Model of the Eruption core: the script hosts (scripting/script.rs), the *)
(* macro / uinput thread (plugins/macros.rs) and the two collaborators the *)
(* repository keeps outside these files, the compositor (main render loop) *)
(* and the input reader, which are modelled from the specification.        *)
(***************************************************************************)
EXTENDS Integers, Sequences, FiniteSets, TLC

\* ---------------------------------------------------------------- bounds
MaxTicks == 2
MaxKeys == 2
MaxInject == 1
NUM_KEYS == 2
MaxCalls == 2
MaxObservers == 3
MaxSide == 3

\* the script threads, in registration order
Scripts == {1, 2}

\* the k-th physical key event (code, value): each key is pressed, then released
HwEvent(k) == <<30 + ((k - 1) \div 2), k % 2>>
\* arguments scripts pass to inject_key
InjectArgs == {<<42, TRUE>>, <<42, FALSE>>}
\* results of gettimeofday() in the macro thread (physical timestamps are 1..MaxKeys)
GetTimeOfDay == {100}
\* results of write_event on the virtual device (TRUE: Ok)
WriteResults == BOOLEAN
\* a u32 colour is held as its two 16-bit halves <<high, low>>
u32(high, low) == <<high, low>>
\* packed colours scripts pass to the frame callbacks: 0xffffffff, 0xff000080
Colors == {u32(65535, 65535), u32(65280, 128)}
\* values of the BRIGHTNESS atomic
Brightness == {100, 50}

\* ---------------------------------------------------------------- state
VARIABLES
    tick,                 \* compositor: tick counter
    comp_pc,              \* compositor: position in the render loop
    comp_key,             \* compositor: the key event whose upcalls it waits for
    comp_ret,             \* compositor: where it continues after the key upcalls
    comp_inbox,           \* KeyDown/KeyUp events delivered to the compositor
    prev_frame,           \* compositor: global frame before the barrier
    presented,            \* frame last handed to the device transport
    ACTIVE_SCRIPTS,       \* registry of active scripts
    scripted,             \* scripts whose Lua code defines handlers
    run_ticks,            \* number of ticks the run is followed for
    lua_q,                \* control channel of each script
    script_pc,            \* position of each script thread
    cur,                  \* message a script is handling
    LED_MAP,              \* global frame
    LOCAL_LED_MAP,        \* local frame of each script
    BRIGHTNESS,
    COLOR_MAPS_READY_CONDITION,
    UPCALL_COMPLETED_ON_KEY_DOWN,
    UPCALL_COMPLETED_ON_KEY_UP,
    DROP_CURRENT_KEY,
    UINPUT_TX,            \* TRUE: Some(sender)
    uinput_q,             \* macro channel
    macro_pc,             \* macro thread
    DEVICE,               \* TRUE: Some(virtual device)
    device_out,           \* events written to the virtual device
    reader_n,             \* physical events read so far
    reader_pending,       \* raw event whose Mirror is still to be published
    bcast,                \* history: messages broadcast to the scripts
    processed,            \* history: messages each script has processed
    inject_log,           \* history: the inject_key calls made
    LED_MAP_lock,         \* holder of the LED_MAP mutex (0: free)
    call,                 \* frame callback each script thread is inside of
    presenting,           \* threads inside send_led_map (0: the compositor)
    last_call,            \* history: the last frame callback entered
    ncalls,               \* history: number of frame callbacks entered
    INTERNAL_EVENT_OBSERVERS, \* event bus: the registered observers
    last_notify,          \* history: the last notify_observers call
    rotate_args,          \* arguments of the rotate call under study
    rotate_result,        \* what that call returned
    color_args,           \* channels <<r, g, b, a>> of the conversion under study
    color_result,         \* what packing and unpacking them returned
    blend_idx,            \* blend loop of each script: next pixel (-1: not in it)
    blend_used,           \* history: brightness loaded for each pixel of the blend
    lua_tx                \* scripts whose control channel still has a sender

blendVars == <<blend_idx, blend_used>>
txVars == <<lua_tx>>
libVars == <<INTERNAL_EVENT_OBSERVERS, last_notify, rotate_args, rotate_result,
             color_args, color_result>>

vars == <<libVars, txVars, blendVars, scripted, run_ticks, tick, comp_pc, comp_key, comp_ret, comp_inbox, prev_frame, presented,
          ACTIVE_SCRIPTS, lua_q, script_pc, cur, LED_MAP, LOCAL_LED_MAP,
          BRIGHTNESS, COLOR_MAPS_READY_CONDITION, UPCALL_COMPLETED_ON_KEY_DOWN,
          UPCALL_COMPLETED_ON_KEY_UP, DROP_CURRENT_KEY, UINPUT_TX, uinput_q,
          macro_pc, DEVICE, device_out, reader_n, reader_pending, bcast,
          processed, inject_log, LED_MAP_lock, call, presenting, last_call,
          ncalls>>

apiVars == <<LED_MAP_lock, call, presenting, last_call, ncalls>>
compVars == <<tick, comp_pc, comp_key, comp_ret, prev_frame, presented>>
frameVars == <<LED_MAP, LOCAL_LED_MAP, BRIGHTNESS>>
latchVars == <<COLOR_MAPS_READY_CONDITION, UPCALL_COMPLETED_ON_KEY_DOWN,
               UPCALL_COMPLETED_ON_KEY_UP>>
macroVars == <<UINPUT_TX, uinput_q, macro_pc, DEVICE, device_out>>
readerVars == <<reader_n, reader_pending>>
\* everything but the event bus and the rotate call
hostVars == <<txVars, blendVars, scripted, run_ticks, compVars, comp_inbox, ACTIVE_SCRIPTS, lua_q,
              script_pc, cur, frameVars, latchVars, DROP_CURRENT_KEY, macroVars,
              readerVars, bcast, processed, inject_log, apiVars>>

\* ---------------------------------------------------------------- data
NoMsg == [kind |-> "None", param |-> 0]
NoEvent == [type |-> "None", code |-> 0, value |-> 0, time |-> 0]

Keys == 0 .. (NUM_KEYS - 1)
Black == [r |-> 0, g |-> 0, b |-> 0, a |-> 0]
NewFrame == [i \in Keys |-> Black]

Tick(t) == [kind |-> "Tick", param |-> t]
RealizeColorMap == [kind |-> "RealizeColorMap", param |-> 0]
KeyDown(c) == [kind |-> "KeyDown", param |-> c]
KeyUp(c) == [kind |-> "KeyUp", param |-> c]
Unload == [kind |-> "Unload", param |-> 0]

\* gate: the value of DROP_CURRENT_KEY when the command was sent (history only)
MirrorKey(raw, gate) == [kind |-> "MirrorKey", raw |-> raw, key |-> 0,
                         down |-> FALSE, gate |-> gate]
InjectKey(key, down) == [kind |-> "InjectKey", raw |-> NoEvent, key |-> key,
                         down |-> down, gate |-> FALSE]

RawKey(code, value, time) ==
    [type |-> "EV_KEY", code |-> code, value |-> value, time |-> time]
SynReport(value, time) ==
    [type |-> "EV_SYN", code |-> 0, value |-> value, time |-> time]

\* a frame callback: function, caller, arguments, result, frame handed to
\* send_led_map
NoCall == [fn |-> "none", s |-> 0, idx |-> 0, c |-> u32(0, 0),
           map |-> [i \in Keys |-> u32(0, 0)], ret |-> u32(0, 0),
           frame |-> NewFrame]

\* a notify_observers call: the event, the observers registered at the call,
\* the observers invoked (by position) and the result
NoNotify == [event |-> "None", observers |-> <<>>, invoked |-> <<>>,
             result |-> [ok |-> TRUE, by |-> 0]]

\* a rotate call: map, theta in quarter turns, sizes
NoArgs == [map |-> <<>>, theta |-> 0, sizes |-> <<0, 0>>]
NoResult == [returned |-> FALSE, panicked |-> FALSE, map |-> <<>>]

\* a conversion: no channels given, nothing returned
NoColorArgs == <<>>
NoColorResult == [done |-> FALSE, c |-> u32(0, 0), rgba |-> <<>>]

\* ---------------------------------------------------------------- Init
\* spc: where the loaded script threads are; mpc: where the macro thread is
InitCore(handlers, loaded, brightness, ticks, spc, mpc) ==
    /\ INTERNAL_EVENT_OBSERVERS = <<>>
    /\ last_notify = NoNotify
    /\ rotate_result = NoResult
    /\ color_result = NoColorResult
    /\ lua_tx = loaded
    /\ blend_idx = [s \in Scripts |-> -1]
    /\ blend_used = [s \in Scripts |-> <<>>]
    /\ scripted = handlers
    /\ run_ticks = ticks
    /\ LED_MAP_lock = 0
    /\ call = [s \in Scripts |-> NoCall]
    /\ presenting = {}
    /\ last_call = NoCall
    /\ ncalls = 0
    /\ tick = 0
    /\ comp_pc = "idle"
    /\ comp_key = NoEvent
    /\ comp_ret = "idle"
    /\ comp_inbox = <<>>
    /\ prev_frame = NewFrame
    /\ presented = NewFrame
    /\ ACTIVE_SCRIPTS = loaded
    /\ lua_q = [s \in Scripts |-> <<>>]
    /\ script_pc = [s \in Scripts |-> IF s \in loaded THEN spc ELSE "unloaded"]
    /\ cur = [s \in Scripts |-> NoMsg]
    /\ LED_MAP = NewFrame
    /\ LOCAL_LED_MAP = [s \in Scripts |-> NewFrame]
    /\ BRIGHTNESS = brightness
    /\ COLOR_MAPS_READY_CONDITION = 0
    /\ UPCALL_COMPLETED_ON_KEY_DOWN = 0
    /\ UPCALL_COMPLETED_ON_KEY_UP = 0
    /\ DROP_CURRENT_KEY = FALSE
    /\ UINPUT_TX = TRUE
    /\ uinput_q = <<>>
    /\ macro_pc = mpc
    /\ DEVICE = (mpc = "loop")
    /\ device_out = <<>>
    /\ reader_n = 0
    /\ reader_pending = NoEvent
    /\ bcast = <<>>
    /\ processed = [s \in Scripts |-> <<>>]
    /\ inject_log = {}

\* no call of rotate is under study
InitState(handlers, loaded, brightness, ticks, spc, mpc) ==
    /\ InitCore(handlers, loaded, brightness, ticks, spc, mpc)
    /\ rotate_args = NoArgs
    /\ color_args = NoColorArgs

\* the scripts have entered their event loops, the macro thread has created
\* the virtual device and has entered its loop
InitWith(handlers, loaded, brightness, ticks) ==
    InitState(handlers, loaded, brightness, ticks, "recv", "loop")

\* script 1 is an arbitrary Lua script, script 2 defines no handler
Init == InitWith({1}, Scripts, 100, MaxTicks)

\* every script is an arbitrary Lua script
InitAll == InitWith(Scripts, Scripts, 100, MaxTicks)

\* ---------------------------------------------------------------- frames
\* script.rs 541-543: one colour channel of the blend; the f64 product is
\* exact, "as u32" truncates, ">> 8" divides by 256, "as u8" keeps 8 bits
blend_channel(fa, fc, bc, brightness) ==
    ((((fa * fc + (255 - fa) * bc) * brightness) \div 100) \div 256) % 256

\* script.rs 540-545
blend_pixel(fg, bg, brightness) ==
    [r |-> blend_channel(fg.a, fg.r, bg.r, brightness),
     g |-> blend_channel(fg.a, fg.g, bg.g, brightness),
     b |-> blend_channel(fg.a, fg.b, bg.b, brightness),
     a |-> fg.a]

\* script.rs 532-549: the loop over all pixels, under the LED_MAP lock
blend(background, foreground, brightness) ==
    [i \in Keys |-> blend_pixel(foreground[i], background[i], brightness)]

\* script.rs 552-559: checked_sub(1) computes a value that is never stored
barrier_ack(n) == n

\* a completion that takes two from the counter
upcall_completed_twice(n) == n - 2

\* script.rs 573, 587: *latch -= 1
upcall_completed(n) == n - 1

\* ---------------------------------------------------------------- script host
\* a channel that hands out the newest message first
recv_newest(q) == [msg |-> q[Len(q)], rest |-> SubSeq(q, 1, Len(q) - 1)]

\* script.rs 509: rx.recv() takes the oldest message of the control channel
recv(q) == [msg |-> Head(q), rest |-> Tail(q)]

CanRecv(s, kind) ==
    /\ script_pc[s] = "recv"
    /\ lua_q[s] # <<>>
    /\ recv(lua_q[s]).msg.kind = kind

\* script.rs 522, 564, 578: globals().get(handler) finds a function or not;
\* scripts outside `scripted` define no handler at all
HandlerDefined(s) == IF s \in scripted THEN BOOLEAN ELSE {FALSE}

InKeyUpcall(s) == script_pc[s] \in {"on_key_down", "on_key_up"}
InUpcall(s) ==
    script_pc[s] \in {"on_startup", "on_tick", "on_key_down", "on_key_up"}

\* the Lua code of a handler of script s is executing
Running(s) == InUpcall(s) /\ call[s] = NoCall

\* a receive that leaves the message in the channel
Peek(s) ==
    /\ lua_q' = lua_q
    /\ processed' = [processed EXCEPT ![s] = Append(@, recv(lua_q[s]).msg)]

\* the message leaves the channel and its handling starts
Take(s) ==
    /\ lua_q' = [lua_q EXCEPT ![s] = recv(lua_q[s]).rest]
    /\ processed' = [processed EXCEPT ![s] = Append(@, recv(lua_q[s]).msg)]

\* script.rs 522-528, 564-571, 578-585: the handler exists and is called
EnterUpcall(s, pc) ==
    /\ Take(s)
    /\ script_pc' = [script_pc EXCEPT ![s] = pc]
    /\ cur' = [cur EXCEPT ![s] = recv(lua_q[s]).msg]

\* spec 7: a script whose thread terminated is removed from the registry
Unregister(s) == ACTIVE_SCRIPTS' = ACTIVE_SCRIPTS \ {s}

\* script.rs 613-617: run_script returns (or unwinds), the receiver of the
\* control channel is dropped with the thread
ThreadEnds(s, how) ==
    /\ script_pc' = [script_pc EXCEPT ![s] = how]
    /\ cur' = [cur EXCEPT ![s] = NoMsg]
    /\ lua_q' = [lua_q EXCEPT ![s] = <<>>]
    /\ Unregister(s)

\* script.rs 521-529
ScriptTick(s) ==
    /\ CanRecv(s, "Tick")
    /\ \E has_handler \in HandlerDefined(s) :
         IF has_handler
         THEN EnterUpcall(s, "on_tick")
         ELSE Take(s) /\ UNCHANGED <<script_pc, cur>>
    /\ UNCHANGED <<compVars, comp_inbox, ACTIVE_SCRIPTS, frameVars, latchVars,
                   DROP_CURRENT_KEY, macroVars, readerVars, bcast, inject_log>>
    /\ UNCHANGED <<libVars, txVars, blendVars, scripted, run_ticks, apiVars>>

\* script.rs 531-561
ScriptRealizeColorMap(s) ==
    /\ CanRecv(s, "RealizeColorMap")
    /\ LED_MAP_lock = 0
    /\ Take(s)
    /\ LED_MAP' = blend(LED_MAP, LOCAL_LED_MAP[s], BRIGHTNESS)
    /\ COLOR_MAPS_READY_CONDITION' = barrier_ack(COLOR_MAPS_READY_CONDITION)
    /\ UNCHANGED <<compVars, comp_inbox, ACTIVE_SCRIPTS, script_pc, cur,
                   LOCAL_LED_MAP, BRIGHTNESS, UPCALL_COMPLETED_ON_KEY_DOWN,
                   UPCALL_COMPLETED_ON_KEY_UP, DROP_CURRENT_KEY, macroVars,
                   readerVars, bcast, inject_log>>
    /\ UNCHANGED <<libVars, txVars, blendVars, scripted, run_ticks, apiVars>>

\* a blend loop that does not lock the global frame
BlendBeginUnlocked(s) ==
    /\ CanRecv(s, "RealizeColorMap")
    /\ Take(s)
    /\ script_pc' = [script_pc EXCEPT ![s] = "blend"]
    /\ blend_idx' = [blend_idx EXCEPT ![s] = 0]
    /\ blend_used' = [blend_used EXCEPT ![s] = <<>>]
    /\ UNCHANGED <<compVars, comp_inbox, ACTIVE_SCRIPTS, cur, frameVars, latchVars,
                   DROP_CURRENT_KEY, macroVars, readerVars, bcast, inject_log>>
    /\ UNCHANGED <<libVars, txVars, scripted, run_ticks, apiVars>>

\* script.rs 531-533: RealizeColorMap is received, LED_MAP.lock() is taken;
\* the guard lives as long as the for loop
BlendBegin(s) ==
    /\ CanRecv(s, "RealizeColorMap")
    /\ LED_MAP_lock = 0
    /\ LED_MAP_lock' = s
    /\ Take(s)
    /\ script_pc' = [script_pc EXCEPT ![s] = "blend"]
    /\ blend_idx' = [blend_idx EXCEPT ![s] = 0]
    /\ blend_used' = [blend_used EXCEPT ![s] = <<>>]
    /\ UNCHANGED <<compVars, comp_inbox, ACTIVE_SCRIPTS, cur, frameVars, latchVars,
                   DROP_CURRENT_KEY, macroVars, readerVars, bcast, inject_log>>
    /\ UNCHANGED <<libVars, txVars, scripted, run_ticks, call, presenting, last_call, ncalls>>

\* script.rs 533-547: one iteration; BRIGHTNESS is loaded in the loop body
BlendPixel(s) ==
    /\ script_pc[s] = "blend"
    /\ blend_idx[s] < NUM_KEYS
    /\ LET idx == blend_idx[s]
           brightness == BRIGHTNESS IN
         /\ LED_MAP' = [LED_MAP EXCEPT ![idx] =
                            blend_pixel(LOCAL_LED_MAP[s][idx], LED_MAP[idx], brightness)]
         /\ blend_used' = [blend_used EXCEPT ![s] = Append(@, brightness)]
         /\ blend_idx' = [blend_idx EXCEPT ![s] = idx + 1]
    /\ UNCHANGED <<compVars, comp_inbox, ACTIVE_SCRIPTS, lua_q, script_pc, cur,
                   LOCAL_LED_MAP, BRIGHTNESS, latchVars, DROP_CURRENT_KEY,
                   macroVars, readerVars, bcast, processed, inject_log>>
    /\ UNCHANGED <<libVars, txVars, scripted, run_ticks, apiVars>>

\* script.rs 548-561: the loop ends, the guard is dropped, the barrier is
\* acknowledged
BlendEnd(s) ==
    /\ script_pc[s] = "blend"
    /\ blend_idx[s] = NUM_KEYS
    /\ LED_MAP_lock' = IF LED_MAP_lock = s THEN 0 ELSE LED_MAP_lock
    /\ COLOR_MAPS_READY_CONDITION' = barrier_ack(COLOR_MAPS_READY_CONDITION)
    /\ script_pc' = [script_pc EXCEPT ![s] = "recv"]
    /\ blend_idx' = [blend_idx EXCEPT ![s] = -1]
    /\ UNCHANGED <<compVars, comp_inbox, ACTIVE_SCRIPTS, lua_q, cur, frameVars,
                   UPCALL_COMPLETED_ON_KEY_DOWN, UPCALL_COMPLETED_ON_KEY_UP,
                   DROP_CURRENT_KEY, macroVars, readerVars, bcast, processed,
                   inject_log, blend_used>>
    /\ UNCHANGED <<libVars, txVars, scripted, run_ticks, call, presenting, last_call, ncalls>>

\* spec 5: BRIGHTNESS is an atomic that another thread stores to
SetBrightness ==
    /\ \E brightness \in Brightness \ {BRIGHTNESS} : BRIGHTNESS' = brightness
    /\ UNCHANGED <<compVars, comp_inbox, ACTIVE_SCRIPTS, lua_q, script_pc, cur,
                   LED_MAP, LOCAL_LED_MAP, latchVars, DROP_CURRENT_KEY, macroVars,
                   readerVars, bcast, processed, inject_log>>
    /\ UNCHANGED <<libVars, txVars, blendVars, scripted, run_ticks, apiVars>>

\* script.rs 563-575
ScriptKeyDown(s) ==
    /\ CanRecv(s, "KeyDown")
    /\ \E has_handler \in HandlerDefined(s) :
         IF has_handler
         THEN /\ EnterUpcall(s, "on_key_down")
              /\ UNCHANGED UPCALL_COMPLETED_ON_KEY_DOWN
         ELSE /\ Take(s)
              /\ UPCALL_COMPLETED_ON_KEY_DOWN' =
                     upcall_completed(UPCALL_COMPLETED_ON_KEY_DOWN)
              /\ UNCHANGED <<script_pc, cur>>
    /\ UNCHANGED <<compVars, comp_inbox, ACTIVE_SCRIPTS, frameVars,
                   COLOR_MAPS_READY_CONDITION, UPCALL_COMPLETED_ON_KEY_UP,
                   DROP_CURRENT_KEY, macroVars, readerVars, bcast, inject_log>>
    /\ UNCHANGED <<libVars, txVars, blendVars, scripted, run_ticks, apiVars>>

\* script.rs 577-589
ScriptKeyUp(s) ==
    /\ CanRecv(s, "KeyUp")
    /\ \E has_handler \in HandlerDefined(s) :
         IF has_handler
         THEN /\ EnterUpcall(s, "on_key_up")
              /\ UNCHANGED UPCALL_COMPLETED_ON_KEY_UP
         ELSE /\ Take(s)
              /\ UPCALL_COMPLETED_ON_KEY_UP' =
                     upcall_completed(UPCALL_COMPLETED_ON_KEY_UP)
              /\ UNCHANGED <<script_pc, cur>>
    /\ UNCHANGED <<compVars, comp_inbox, ACTIVE_SCRIPTS, frameVars,
                   COLOR_MAPS_READY_CONDITION, UPCALL_COMPLETED_ON_KEY_DOWN,
                   DROP_CURRENT_KEY, macroVars, readerVars, bcast, inject_log>>
    /\ UNCHANGED <<libVars, txVars, blendVars, scripted, run_ticks, apiVars>>

\* the receiving end of the macro channel exists (macros.rs 369, 455)
ReceiverAlive == macro_pc \in {"init", "loop"}

\* script.rs 139-151, called by the Lua code of a running handler
inject_key(s, ev_key, down) ==
    /\ Running(s)
    /\ Cardinality(inject_log) < MaxInject
    /\ DROP_CURRENT_KEY' = TRUE
    /\ inject_log' = inject_log \cup
           {[s |-> s, upcall |-> script_pc[s],
             ev |-> IF InKeyUpcall(s) THEN comp_key.time ELSE 0,
             n |-> Cardinality(inject_log) + 1, key |-> ev_key, down |-> down]}
    /\ IF UINPUT_TX /\ ReceiverAlive
       THEN /\ uinput_q' = Append(uinput_q, InjectKey(ev_key, down))
            /\ UNCHANGED <<script_pc, cur, lua_q, ACTIVE_SCRIPTS>>
       ELSE \* unwrap() of None, or of the error of a send without receiver
            /\ ThreadEnds(s, "panicked")
            /\ UNCHANGED uinput_q
    /\ UNCHANGED <<compVars, comp_inbox, frameVars, latchVars, UINPUT_TX,
                   macro_pc, DEVICE, device_out, readerVars, bcast, processed>>
    /\ UNCHANGED <<libVars, txVars, blendVars, scripted, run_ticks, apiVars>>

CallInjectKey(s) == \E args \in InjectArgs : inject_key(s, args[1], args[2])

\* a script passes a number that is no key code (KEY_MAX is 767)
InvalidInjectArgs == {<<768, TRUE>>}

CallInjectInvalidKey(s) ==
    \E args \in InvalidInjectArgs : inject_key(s, args[1], args[2])

\* script.rs 524-529, 567-575, 581-589: the handler returns Ok
HandlerReturn(s) ==
    /\ Running(s)
    /\ script_pc' = [script_pc EXCEPT ![s] = "recv"]
    /\ cur' = [cur EXCEPT ![s] = NoMsg]
    /\ UPCALL_COMPLETED_ON_KEY_DOWN' =
           IF script_pc[s] = "on_key_down"
           THEN upcall_completed(UPCALL_COMPLETED_ON_KEY_DOWN)
           ELSE UPCALL_COMPLETED_ON_KEY_DOWN
    /\ UPCALL_COMPLETED_ON_KEY_UP' =
           IF script_pc[s] = "on_key_up"
           THEN upcall_completed(UPCALL_COMPLETED_ON_KEY_UP)
           ELSE UPCALL_COMPLETED_ON_KEY_UP
    /\ UNCHANGED <<compVars, comp_inbox, ACTIVE_SCRIPTS, lua_q, frameVars,
                   COLOR_MAPS_READY_CONDITION, DROP_CURRENT_KEY, macroVars,
                   readerVars, bcast, processed, inject_log>>
    /\ UNCHANGED <<libVars, txVars, blendVars, scripted, run_ticks, apiVars>>

\* script.rs 524-527, 567-570, 581-584, 613-617: the handler raises an error,
\* "?" leaves the loop and run_script returns Err(LuaError)
HandlerError(s) ==
    /\ Running(s)
    /\ ThreadEnds(s, "failed")
    /\ UNCHANGED <<compVars, comp_inbox, frameVars, latchVars,
                   DROP_CURRENT_KEY, macroVars, readerVars, bcast, processed,
                   inject_log>>
    /\ UNCHANGED <<libVars, txVars, blendVars, scripted, run_ticks, apiVars>>

\* script.rs 466-489: the thread of a script is spawned with a fresh control
\* channel and run_script registers the script in ACTIVE_SCRIPTS
LoadScript(s) ==
    /\ script_pc[s] = "unloaded"
    /\ script_pc' = [script_pc EXCEPT ![s] = "start"]
    /\ ACTIVE_SCRIPTS' = ACTIVE_SCRIPTS \cup {s}
    /\ lua_tx' = lua_tx \cup {s}
    /\ UNCHANGED <<compVars, comp_inbox, lua_q, cur, frameVars, latchVars,
                   DROP_CURRENT_KEY, macroVars, readerVars, bcast, processed,
                   inject_log>>
    /\ UNCHANGED <<libVars, blendVars, scripted, run_ticks, apiVars>>

\* script.rs 509: recv() on a control channel that is empty and has no sender
\* returns Err; the "if let Ok(msg)" does not match
ScriptRecvDisconnected(s) ==
    /\ script_pc[s] = "recv"
    /\ lua_q[s] = <<>>
    /\ s \notin lua_tx
    /\ script_pc' = [script_pc EXCEPT ![s] = "recv_err"]
    /\ UNCHANGED <<compVars, comp_inbox, ACTIVE_SCRIPTS, lua_q, cur, frameVars,
                   latchVars, DROP_CURRENT_KEY, macroVars, readerVars, bcast,
                   processed, inject_log>>
    /\ UNCHANGED <<libVars, txVars, blendVars, scripted, run_ticks, apiVars>>

\* script.rs 508-510, 609-610: the if has no else, the loop starts over
ScriptLoopAgain(s) ==
    /\ script_pc[s] = "recv_err"
    /\ script_pc' = [script_pc EXCEPT ![s] = "recv"]
    /\ UNCHANGED <<compVars, comp_inbox, ACTIVE_SCRIPTS, lua_q, cur, frameVars,
                   latchVars, DROP_CURRENT_KEY, macroVars, readerVars, bcast,
                   processed, inject_log>>
    /\ UNCHANGED <<libVars, txVars, blendVars, scripted, run_ticks, apiVars>>

\* script.rs 499: scripts in `scripted` define on_startup
StartupDefined(s) == s \in scripted

\* a host that enters the event loop without the startup upcall
run_script_no_startup(s, evaluated) ==
    /\ script_pc[s] = "start"
    /\ IF evaluated
       THEN /\ script_pc' = [script_pc EXCEPT ![s] = "recv"]
            /\ UNCHANGED <<cur, lua_q, ACTIVE_SCRIPTS>>
       ELSE ThreadEnds(s, "failed")
    /\ UNCHANGED <<compVars, comp_inbox, frameVars, latchVars,
                   DROP_CURRENT_KEY, macroVars, readerVars, bcast, processed,
                   inject_log>>
    /\ UNCHANGED <<libVars, txVars, blendVars, scripted, run_ticks, apiVars>>

\* script.rs 493-506: the script body is evaluated ("?" returns its error),
\* then on_startup is called if the script defines it, else the loop starts
run_script(s, evaluated) ==
    /\ script_pc[s] = "start"
    /\ IF evaluated
       THEN /\ script_pc' = [script_pc EXCEPT ![s] =
                                 IF StartupDefined(s) THEN "on_startup" ELSE "recv"]
            /\ UNCHANGED <<cur, lua_q, ACTIVE_SCRIPTS>>
       ELSE ThreadEnds(s, "failed")
    /\ UNCHANGED <<compVars, comp_inbox, frameVars, latchVars,
                   DROP_CURRENT_KEY, macroVars, readerVars, bcast, processed,
                   inject_log>>
    /\ UNCHANGED <<libVars, txVars, blendVars, scripted, run_ticks, apiVars>>

\* script.rs 497: the results of eval (TRUE: Ok)
EvalResults == BOOLEAN

ScriptStart(s) == \E evaluated \in EvalResults : run_script(s, evaluated)

\* a host that takes Unload from the channel and goes on receiving
ScriptUnloadIgnored(s) ==
    /\ CanRecv(s, "Unload")
    /\ Take(s)
    /\ UNCHANGED <<script_pc, cur, ACTIVE_SCRIPTS>>
    /\ UNCHANGED <<compVars, comp_inbox, frameVars, latchVars,
                   DROP_CURRENT_KEY, macroVars, readerVars, bcast, inject_log>>
    /\ UNCHANGED <<libVars, txVars, blendVars, scripted, run_ticks, apiVars>>

\* script.rs 594-607: return Ok(TerminatedGracefully), no handler is called
ScriptUnload(s) ==
    /\ CanRecv(s, "Unload")
    /\ processed' = [processed EXCEPT ![s] = Append(@, recv(lua_q[s]).msg)]
    /\ ThreadEnds(s, "terminated")
    /\ UNCHANGED <<compVars, comp_inbox, frameVars, latchVars,
                   DROP_CURRENT_KEY, macroVars, readerVars, bcast, inject_log>>
    /\ UNCHANGED <<libVars, txVars, blendVars, scripted, run_ticks, apiVars>>

\* ---------------------------------------------------------------- frame callbacks
\* script.rs 351-356, 404-409, 445-450: the channels of a packed colour
unpack(c) ==
    [r |-> c[1] % 256, g |-> (c[2] \div 256) % 256, b |-> c[2] % 256,
     a |-> (c[1] \div 256) % 256]

\* script.rs 401-412, 442-453: led_map[i] = unpack(map[i]); i += 1;
\* if i >= NUM_KEYS - 1 { break }
RECURSIVE copy_loop(_, _, _)
copy_loop(led_map, map, i) ==
    LET copied == [led_map EXCEPT ![i] = unpack(map[i])] IN
    IF i + 1 >= NUM_KEYS - 1 THEN copied ELSE copy_loop(copied, map, i + 1)

\* script.rs 391-412, 432-453: the array starts all zero
unpack_map(map) == copy_loop(NewFrame, map, 0)

\* the maps of length NUM_KEYS scripts pass
Maps == [Keys -> Colors]

\* script.rs 343-346: the value returned for key idx
get_key_color_result(idx) == u32(0, 0)

CanCall(s) == Running(s) /\ ncalls < MaxCalls

\* script.rs 191-193: LittleEndian::read_u32(&[b, g, r, a])
rgba_to_color(r, g, b, a) == u32(a * 256 + r, g * 256 + b)

\* a submit that stores the frame in the global frame as well
submit_color_map_global(s, map) ==
    /\ CanCall(s)
    /\ LOCAL_LED_MAP' = [LOCAL_LED_MAP EXCEPT ![s] = unpack_map(map)]
    /\ LED_MAP' = unpack_map(map)
    /\ last_call' = [NoCall EXCEPT !.fn = "submit_color_map", !.s = s, !.map = map]
    /\ ncalls' = ncalls + 1
    /\ UNCHANGED <<compVars, comp_inbox, ACTIVE_SCRIPTS, libVars, txVars, blendVars, scripted, run_ticks, lua_q, script_pc,
                   cur, BRIGHTNESS, latchVars, DROP_CURRENT_KEY, macroVars,
                   readerVars, bcast, processed, inject_log, LED_MAP_lock, call,
                   presenting>>

\* script.rs 428-455
submit_color_map(s, map) ==
    /\ CanCall(s)
    /\ LOCAL_LED_MAP' = [LOCAL_LED_MAP EXCEPT ![s] = unpack_map(map)]
    /\ last_call' = [NoCall EXCEPT !.fn = "submit_color_map", !.s = s, !.map = map]
    /\ ncalls' = ncalls + 1
    /\ UNCHANGED <<compVars, comp_inbox, ACTIVE_SCRIPTS, libVars, txVars, blendVars, scripted, run_ticks, lua_q, script_pc,
                   cur, LED_MAP, BRIGHTNESS, latchVars, DROP_CURRENT_KEY, macroVars,
                   readerVars, bcast, processed, inject_log, LED_MAP_lock, call,
                   presenting>>

\* a script thread takes the LED_MAP mutex, stores the frame and enters
\* send_led_map with it, under its own device mutex (script.rs 644)
EnterPresent(s, this_call, global) ==
    /\ CanCall(s)
    /\ LED_MAP_lock = 0
    /\ LED_MAP_lock' = s
    /\ LED_MAP' = global
    /\ presented' = this_call.frame
    /\ presenting' = presenting \cup {s}
    /\ call' = [call EXCEPT ![s] = this_call]
    /\ last_call' = this_call
    /\ ncalls' = ncalls + 1
    /\ UNCHANGED <<tick, comp_pc, comp_key, comp_ret, prev_frame, comp_inbox,
                   ACTIVE_SCRIPTS, libVars, txVars, blendVars, scripted, run_ticks, lua_q, script_pc, cur, LOCAL_LED_MAP,
                   BRIGHTNESS, latchVars, DROP_CURRENT_KEY, macroVars, readerVars,
                   bcast, processed, inject_log>>

\* script.rs 349-362: up to the call of send_led_map
set_key_color(s, idx, c) ==
    LET global == [LED_MAP EXCEPT ![idx] = unpack(c)] IN
    EnterPresent(s, [NoCall EXCEPT !.fn = "set_key_color", !.s = s, !.idx = idx,
                                   !.c = c, !.frame = global], global)

\* script.rs 388-419: up to the call of send_led_map
set_color_map(s, map) ==
    LET led_map == unpack_map(map) IN
    EnterPresent(s, [NoCall EXCEPT !.fn = "set_color_map", !.s = s, !.map = map,
                                   !.frame = led_map], led_map)

\* script.rs 360-367, 417-424: send_led_map returns, the thread sleeps
\* DEVICE_SETTLE_MILLIS, the guards are dropped at the end of the function
CallbackReturns(s) ==
    /\ call[s] # NoCall
    /\ call' = [call EXCEPT ![s] = NoCall]
    /\ presenting' = presenting \ {s}
    /\ LED_MAP_lock' = 0
    /\ UNCHANGED <<compVars, comp_inbox, ACTIVE_SCRIPTS, libVars, txVars, blendVars, scripted, run_ticks, lua_q, script_pc,
                   cur, frameVars, latchVars, DROP_CURRENT_KEY, macroVars,
                   readerVars, bcast, processed, inject_log, last_call, ncalls>>

\* script.rs 343-346
get_key_color(s, idx) ==
    /\ CanCall(s)
    /\ last_call' = [NoCall EXCEPT !.fn = "get_key_color", !.s = s, !.idx = idx,
                                    !.ret = get_key_color_result(idx)]
    /\ ncalls' = ncalls + 1
    /\ UNCHANGED <<compVars, comp_inbox, ACTIVE_SCRIPTS, libVars, txVars, blendVars, scripted, run_ticks, lua_q, script_pc,
                   cur, frameVars, latchVars, DROP_CURRENT_KEY, macroVars,
                   readerVars, bcast, processed, inject_log, LED_MAP_lock, call,
                   presenting>>

\* script.rs 372-380: (r << 16) + (g << 8) + b of every pixel
get_color_map_result(led_map) ==
    [i \in Keys |-> u32(led_map[i].r, led_map[i].g * 256 + led_map[i].b)]

\* script.rs 370-385: the LED_MAP mutex is taken once and held to the return
get_color_map(s) ==
    /\ CanCall(s)
    /\ LED_MAP_lock = 0
    /\ last_call' = [NoCall EXCEPT !.fn = "get_color_map", !.s = s,
                                    !.map = get_color_map_result(LED_MAP),
                                    !.frame = LED_MAP]
    /\ ncalls' = ncalls + 1
    /\ UNCHANGED <<compVars, comp_inbox, ACTIVE_SCRIPTS, libVars, txVars, blendVars, scripted, run_ticks, lua_q, script_pc,
                   cur, frameVars, latchVars, DROP_CURRENT_KEY, macroVars,
                   readerVars, bcast, processed, inject_log, LED_MAP_lock, call,
                   presenting>>

\* script.rs 810-842: the Lua code of a handler calls the callbacks
CallSubmitColorMap(s) == \E map \in Maps : submit_color_map(s, map)
CallSetColorMap(s) == \E map \in Maps : set_color_map(s, map)
CallSetKeyColor(s) == \E idx \in Keys, c \in Colors : set_key_color(s, idx, c)
CallGetKeyColor(s) == \E idx \in Keys : get_key_color(s, idx)
CallGetColorMap(s) == get_color_map(s)

\* ---------------------------------------------------------------- compositor
\* send a message to every active script (spec 4.5)
Broadcast(msg) ==
    /\ lua_q' = [s \in Scripts |->
                   IF s \in ACTIVE_SCRIPTS THEN Append(lua_q[s], msg) ELSE lua_q[s]]
    /\ bcast' = Append(bcast, msg)

NumActive == Cardinality(ACTIVE_SCRIPTS)

\* spec 4.5 step 1: advance the tick counter, broadcast Tick(tick)
CompTick ==
    /\ comp_pc = "idle"
    /\ tick < run_ticks
    /\ tick' = tick + 1
    /\ Broadcast(Tick(tick + 1))
    /\ comp_pc' = "drain"
    /\ UNCHANGED <<comp_key, comp_ret, comp_inbox, prev_frame, presented, ACTIVE_SCRIPTS,
                   script_pc, cur, frameVars, latchVars, DROP_CURRENT_KEY,
                   macroVars, readerVars, processed, inject_log>>
    /\ UNCHANGED <<libVars, txVars, blendVars, scripted, run_ticks, apiVars>>

\* spec 4.5 key-upcall protocol, steps 1 and 2; a key event is taken up
\* between two ticks or at step 2 of a tick
CompKey ==
    /\ comp_pc \in {"idle", "drain"}
    /\ comp_ret' = comp_pc
    /\ comp_inbox # <<>>
    /\ LET e == Head(comp_inbox) IN
         /\ comp_key' = e.raw
         /\ Broadcast([kind |-> e.kind, param |-> e.param])
         /\ UPCALL_COMPLETED_ON_KEY_DOWN' =
                IF e.kind = "KeyDown" THEN NumActive ELSE UPCALL_COMPLETED_ON_KEY_DOWN
         /\ UPCALL_COMPLETED_ON_KEY_UP' =
                IF e.kind = "KeyUp" THEN NumActive ELSE UPCALL_COMPLETED_ON_KEY_UP
    /\ comp_inbox' = Tail(comp_inbox)
    /\ comp_pc' = "wait_key"
    /\ UNCHANGED <<tick, prev_frame, presented, ACTIVE_SCRIPTS, script_pc, cur, frameVars, COLOR_MAPS_READY_CONDITION, DROP_CURRENT_KEY,
                   macroVars, readerVars, processed, inject_log>>
    /\ UNCHANGED <<libVars, txVars, blendVars, scripted, run_ticks, apiVars>>

KeyLatch ==
    IF comp_key.value > 0 THEN UPCALL_COMPLETED_ON_KEY_DOWN
    ELSE UPCALL_COMPLETED_ON_KEY_UP

\* spec 4.5 key-upcall protocol, steps 3 and 4
CompKeyDone ==
    /\ comp_pc = "wait_key"
    /\ KeyLatch = 0
    /\ DROP_CURRENT_KEY' = FALSE
    /\ comp_key' = NoEvent
    /\ comp_pc' = comp_ret
    /\ UNCHANGED <<tick, comp_ret, comp_inbox, prev_frame, presented, ACTIVE_SCRIPTS, lua_q,
                   script_pc, cur, frameVars, latchVars, macroVars,
                   readerVars, bcast, processed, inject_log>>
    /\ UNCHANGED <<libVars, txVars, blendVars, scripted, run_ticks, apiVars>>

\* spec 4.5 step 3: broadcast RealizeColorMap, then wait on the barrier
CompRealize ==
    /\ comp_pc = "drain"
    /\ prev_frame' = LED_MAP
    /\ COLOR_MAPS_READY_CONDITION' = NumActive
    /\ Broadcast(RealizeColorMap)
    /\ comp_pc' = "wait_barrier"
    /\ UNCHANGED <<tick, comp_key, comp_ret, comp_inbox, presented, ACTIVE_SCRIPTS,
                   script_pc, cur, frameVars, UPCALL_COMPLETED_ON_KEY_DOWN,
                   UPCALL_COMPLETED_ON_KEY_UP, DROP_CURRENT_KEY, macroVars,
                   readerVars, processed, inject_log>>
    /\ UNCHANGED <<libVars, txVars, blendVars, scripted, run_ticks, apiVars>>

\* a compositor that presents the global frame whether the wait expired or not
CompPresentGlobal ==
    /\ comp_pc = "wait_barrier"
    /\ LED_MAP_lock = 0
    /\ presented' = LED_MAP
    /\ presenting' = presenting \cup {0}
    /\ comp_pc' = "present"
    /\ UNCHANGED <<tick, comp_key, comp_ret, comp_inbox, prev_frame, ACTIVE_SCRIPTS, lua_q,
                   script_pc, cur, frameVars, latchVars, DROP_CURRENT_KEY,
                   macroVars, readerVars, bcast, processed, inject_log>>
    /\ UNCHANGED <<libVars, txVars, blendVars, scripted, run_ticks, LED_MAP_lock, call, last_call, ncalls>>

\* spec 4.5 step 4 and spec 5, timeouts: the wait ends when the barrier has
\* drained, and the global frame is presented, or when it expires, and the
\* previous global frame is presented; the global frame is read under its
\* mutex, which is held only for the read (spec 5)
CompPresent ==
    /\ comp_pc = "wait_barrier"
    /\ COLOR_MAPS_READY_CONDITION = 0 => LED_MAP_lock = 0
    /\ presented' = IF COLOR_MAPS_READY_CONDITION = 0 THEN LED_MAP ELSE prev_frame
    /\ presenting' = presenting \cup {0}
    /\ comp_pc' = "present"
    /\ UNCHANGED <<tick, comp_key, comp_ret, comp_inbox, prev_frame, ACTIVE_SCRIPTS, lua_q,
                   script_pc, cur, frameVars, latchVars, DROP_CURRENT_KEY,
                   macroVars, readerVars, bcast, processed, inject_log>>
    /\ UNCHANGED <<libVars, txVars, blendVars, scripted, run_ticks, LED_MAP_lock, call, last_call, ncalls>>

\* spec 4.5 step 4: device.present returns, the tick is over
CompPresentEnd ==
    /\ comp_pc = "present"
    /\ presenting' = presenting \ {0}
    /\ comp_pc' = "idle"
    /\ UNCHANGED <<tick, comp_key, comp_ret, comp_inbox, prev_frame, presented,
                   ACTIVE_SCRIPTS, lua_q, script_pc, cur, frameVars, latchVars,
                   DROP_CURRENT_KEY, macroVars, readerVars, bcast, processed,
                   inject_log>>
    /\ UNCHANGED <<libVars, txVars, blendVars, scripted, run_ticks, LED_MAP_lock, call, last_call, ncalls>>

\* ---------------------------------------------------------------- input reader
\* spec 4.5, S2: a physical key event is translated to KeyDown/KeyUp for the
\* compositor; its Mirror command follows
ReaderKey ==
    /\ reader_pending = NoEvent
    /\ reader_n < MaxKeys
    /\ LET e == HwEvent(reader_n + 1)
           raw == RawKey(e[1], e[2], reader_n + 1) IN
           /\ comp_inbox' = Append(comp_inbox,
                  [kind |-> IF e[2] > 0 THEN "KeyDown" ELSE "KeyUp",
                   param |-> e[1], raw |-> raw])
           /\ reader_pending' = raw
    /\ reader_n' = reader_n + 1
    /\ UNCHANGED <<compVars, ACTIVE_SCRIPTS, lua_q, script_pc, cur,
                   frameVars, latchVars, DROP_CURRENT_KEY, macroVars, bcast,
                   processed, inject_log>>
    /\ UNCHANGED <<libVars, txVars, blendVars, scripted, run_ticks, apiVars>>

\* spec 4.3: the raw event is published as a Mirror command
ReaderMirror ==
    /\ reader_pending # NoEvent
    /\ uinput_q' = IF UINPUT_TX /\ ReceiverAlive
                   THEN Append(uinput_q, MirrorKey(reader_pending, DROP_CURRENT_KEY))
                   ELSE uinput_q
    /\ reader_pending' = NoEvent
    /\ UNCHANGED <<compVars, comp_inbox, ACTIVE_SCRIPTS, lua_q, script_pc, cur, frameVars, latchVars, DROP_CURRENT_KEY, UINPUT_TX,
                   macro_pc, DEVICE, device_out, reader_n, bcast, processed,
                   inject_log>>
    /\ UNCHANGED <<libVars, txVars, blendVars, scripted, run_ticks, apiVars>>

\* ---------------------------------------------------------------- macro thread
\* macros.rs 458: the gate is read when the command is handled
mirror_allowed(drop) == ~drop

\* a writer that stamps the event anew instead of passing it through
inject_key_event_restamped(out, event, ok) ==
    IF DEVICE
    THEN IF ok THEN [out |-> Append(out, [event EXCEPT !.time = 0]), pc |-> "loop"]
         ELSE [out |-> out, pc |-> "panicked"]
    ELSE [out |-> out, pc |-> "loop"]

\* macros.rs 348-366: write the pre-existing event; ok: write_event succeeded
inject_key_event(out, event, ok) ==
    IF DEVICE
    THEN IF ok THEN [out |-> Append(out, event), pc |-> "loop"]
         ELSE [out |-> out, pc |-> "panicked"]
    ELSE [out |-> out, pc |-> "loop"]

\* a writer that leaves the terminating SYN_REPORT out
inject_single_key_no_syn(out, key, value, time, ok1, ok2) ==
    IF DEVICE
    THEN IF ~ok1 THEN [out |-> out, pc |-> "panicked"]
         ELSE [out |-> Append(out, RawKey(key, value, time)), pc |-> "loop"]
    ELSE [out |-> out, pc |-> "loop"]

\* macros.rs 310-345: EV_KEY then SYN_REPORT, same time; ok1, ok2: the
\* results of the two write_event calls
inject_single_key(out, key, value, time, ok1, ok2) ==
    IF DEVICE
    THEN IF ~ok1 THEN [out |-> out, pc |-> "panicked"]
         ELSE IF ~ok2
         THEN [out |-> Append(out, RawKey(key, value, time)), pc |-> "panicked"]
         ELSE [out |-> out \o <<RawKey(key, value, time), SynReport(value, time)>>,
               pc |-> "loop"]
    ELSE [out |-> out, pc |-> "loop"]

\* macros.rs 466-469: int_to_ev_key
int_to_ev_key_ok(ev_key) == ev_key \in 1 .. 767

MacroCanRecv(kind) ==
    /\ macro_pc = "loop"
    /\ uinput_q # <<>>
    /\ Head(uinput_q).kind = kind

\* the thread unwinds: the receiver and the device are dropped
MacroResult(res) ==
    /\ device_out' = res.out
    /\ macro_pc' = res.pc
    /\ uinput_q' = IF res.pc = "loop" THEN Tail(uinput_q) ELSE <<>>
    /\ DEVICE' = (DEVICE /\ res.pc = "loop")

\* macros.rs 455-463
MacroMirrorKey ==
    /\ MacroCanRecv("MirrorKey")
    /\ IF mirror_allowed(DROP_CURRENT_KEY)
       THEN \E ok \in WriteResults :
              MacroResult(inject_key_event(device_out, Head(uinput_q).raw, ok))
       ELSE MacroResult([out |-> device_out, pc |-> "loop"])
    /\ UNCHANGED <<compVars, comp_inbox, ACTIVE_SCRIPTS, lua_q, script_pc, cur, frameVars, latchVars, DROP_CURRENT_KEY, UINPUT_TX,
                   readerVars, bcast, processed, inject_log>>
    /\ UNCHANGED <<libVars, txVars, blendVars, scripted, run_ticks, apiVars>>

\* macros.rs 455-456, 465-485
MacroInjectKey ==
    /\ MacroCanRecv("InjectKey")
    /\ LET m == Head(uinput_q) IN
         IF int_to_ev_key_ok(m.key)
         THEN \E time \in GetTimeOfDay, ok1 \in WriteResults, ok2 \in WriteResults :
                MacroResult(inject_single_key(device_out, m.key,
                                IF m.down THEN 1 ELSE 0, time, ok1, ok2))
         ELSE MacroResult([out |-> device_out, pc |-> "panicked"])
    /\ UNCHANGED <<compVars, comp_inbox, ACTIVE_SCRIPTS, lua_q, script_pc, cur, frameVars, latchVars, DROP_CURRENT_KEY, UINPUT_TX,
                   readerVars, bcast, processed, inject_log>>
    /\ UNCHANGED <<libVars, txVars, blendVars, scripted, run_ticks, apiVars>>

\* macros.rs 298-306: the results of creating the uinput device (TRUE: Ok)
CreateResults == BOOLEAN

\* macros.rs 374: initialize_thread_locals().unwrap() at the start of the
\* thread; an error panics the thread, the receiver is dropped with it
initialize_thread_locals(created) ==
    /\ macro_pc = "init"
    /\ macro_pc' = IF created THEN "loop" ELSE "init_panicked"
    /\ DEVICE' = created
    /\ uinput_q' = IF created THEN uinput_q ELSE <<>>
    /\ UNCHANGED <<compVars, comp_inbox, ACTIVE_SCRIPTS, lua_q, script_pc, cur,
                   frameVars, latchVars, DROP_CURRENT_KEY, UINPUT_TX, device_out,
                   readerVars, bcast, processed, inject_log>>
    /\ UNCHANGED <<libVars, txVars, blendVars, scripted, run_ticks, apiVars>>

MacroInit == \E created \in CreateResults : initialize_thread_locals(created)

\* macros.rs 455: recv() on the channel whose senders are gone returns Err,
\* unwrap() panics; the thread unwinds and the device is dropped with it
MacroDisconnected ==
    /\ macro_pc = "loop"
    /\ uinput_q = <<>>
    /\ ~UINPUT_TX
    /\ macro_pc' = "panicked"
    /\ DEVICE' = FALSE
    /\ UNCHANGED <<compVars, comp_inbox, ACTIVE_SCRIPTS, lua_q, script_pc, cur,
                   frameVars, latchVars, DROP_CURRENT_KEY, UINPUT_TX, uinput_q,
                   device_out, readerVars, bcast, processed, inject_log>>
    /\ UNCHANGED <<libVars, txVars, blendVars, scripted, run_ticks, apiVars>>

\* ---------------------------------------------------------------- supervisor
ThreadOver(s) == script_pc[s] \in {"unloaded", "terminated", "failed", "panicked"}

\* spec 5, cancellation: Unload is sent to every active script
SupervisorUnload ==
    /\ \A i \in 1 .. Len(bcast) : bcast[i] # Unload
    /\ Broadcast(Unload)
    /\ UNCHANGED <<compVars, comp_inbox, ACTIVE_SCRIPTS, script_pc, cur,
                   frameVars, latchVars, DROP_CURRENT_KEY, macroVars, readerVars,
                   processed, inject_log>>
    /\ UNCHANGED <<libVars, txVars, blendVars, scripted, run_ticks, apiVars>>

\* spec 3, script descriptor: the descriptor of a script, which owns the
\* sender of its control channel, is destroyed without an Unload being sent
DropControlChannel(s) ==
    /\ s \in lua_tx
    /\ lua_tx' = lua_tx \ {s}
    /\ ACTIVE_SCRIPTS' = ACTIVE_SCRIPTS \ {s}
    /\ UNCHANGED <<compVars, comp_inbox, lua_q, script_pc, cur, frameVars,
                   latchVars, DROP_CURRENT_KEY, macroVars, readerVars, bcast,
                   processed, inject_log>>
    /\ UNCHANGED <<libVars, blendVars, scripted, run_ticks, apiVars>>

\* spec 5, cancellation: once the script threads are joined the macro sender
\* is dropped
DropSender ==
    /\ UINPUT_TX
    /\ \E i \in 1 .. Len(bcast) : bcast[i] = Unload
    /\ \A s \in Scripts : ThreadOver(s)
    /\ UINPUT_TX' = FALSE
    /\ UNCHANGED <<compVars, comp_inbox, ACTIVE_SCRIPTS, lua_q, script_pc, cur,
                   frameVars, latchVars, DROP_CURRENT_KEY, uinput_q, macro_pc,
                   DEVICE, device_out, readerVars, bcast, processed, inject_log>>
    /\ UNCHANGED <<libVars, txVars, blendVars, scripted, run_ticks, apiVars>>

\* ---------------------------------------------------------------- event bus
\* events.rs 26-36: the events notified
Events == {"DaemonStartup", "KeyDown"}

\* events.rs 38: what a callback returns, whatever the event
CallbackResults == {"Ok(true)", "Ok(false)", "Err"}

\* events.rs 45-50
register_observer(callback) ==
    /\ Len(INTERNAL_EVENT_OBSERVERS) < MaxObservers
    /\ INTERNAL_EVENT_OBSERVERS' = Append(INTERNAL_EVENT_OBSERVERS, callback)
    /\ UNCHANGED <<last_notify, rotate_args, rotate_result, color_args, color_result,
                   hostVars>>

\* a loop that goes on after an error and reports the last one
RECURSIVE notify_loop_all(_, _, _)
notify_loop_all(observers, i, invoked) ==
    IF i > Len(observers)
    THEN LET errs == {j \in 1 .. Len(observers) : observers[j] = "Err"} IN
         [invoked |-> invoked,
          result |-> IF errs = {} THEN [ok |-> TRUE, by |-> 0]
                     ELSE [ok |-> FALSE,
                           by |-> CHOOSE j \in errs : \A k \in errs : k <= j]]
    ELSE notify_loop_all(observers, i + 1, Append(invoked, i))

\* events.rs 53-57: for callback in observers { callback(&event)?; } Ok(())
RECURSIVE notify_loop(_, _, _)
notify_loop(observers, i, invoked) ==
    IF i > Len(observers)
    THEN [invoked |-> invoked, result |-> [ok |-> TRUE, by |-> 0]]
    ELSE IF observers[i] = "Err"
         THEN [invoked |-> Append(invoked, i), result |-> [ok |-> FALSE, by |-> i]]
         ELSE notify_loop(observers, i + 1, Append(invoked, i))

\* events.rs 52-58: the observers are called under the lock of the list
notify_observers(event) ==
    /\ LET done == notify_loop(INTERNAL_EVENT_OBSERVERS, 1, <<>>) IN
         last_notify' = [event |-> event, observers |-> INTERNAL_EVENT_OBSERVERS,
                         invoked |-> done.invoked, result |-> done.result]
    /\ UNCHANGED <<INTERNAL_EVENT_OBSERVERS, rotate_args, rotate_result, color_args,
                   color_result, hostVars>>

RegisterObserver == \E callback \in CallbackResults : register_observer(callback)
NotifyObservers == \E event \in Events : notify_observers(event)

\* ---------------------------------------------------------------- colours
\* the 8-bit channel values studied
Bytes == {0, 1, 127, 128, 255}

\* an unpacking that returns the bytes in memory order (b, g, r, a)
color_to_bgra(c) ==
    <<c[2] % 256, (c[2] \div 256) % 256, c[1] % 256, (c[1] \div 256) % 256>>

\* script.rs 164-171: a = c >> 24, r = c >> 16, g = c >> 8, b = c, each
\* & 0xff; returns (r, g, b, a)
color_to_rgba(c) ==
    <<c[1] % 256, (c[2] \div 256) % 256, c[2] % 256, (c[1] \div 256) % 256>>

\* script.rs 739-752: a script packs four channels and unpacks the
\* colour again
CallColorRoundTrip ==
    /\ color_args # NoColorArgs
    /\ ~color_result.done
    /\ LET c == rgba_to_color(color_args[1], color_args[2], color_args[3],
                              color_args[4]) IN
         color_result' = [done |-> TRUE, c |-> c, rgba |-> color_to_rgba(c)]
    /\ UNCHANGED <<INTERNAL_EVENT_OBSERVERS, last_notify, rotate_args,
                   rotate_result, color_args, hostVars>>

\* ---------------------------------------------------------------- rotate
\* the angles studied are whole quarter turns, theta = q * PI / 2; the f64
\* sine and cosine differ from these by less than 1e-15, which round()
\* at script.rs 309 removes for the coordinates used here
Thetas == 0 .. 3
cos(q) == IF q = 0 THEN 1 ELSE IF q = 2 THEN -1 ELSE 0
sin(q) == IF q = 1 THEN 1 ELSE IF q = 3 THEN -1 ELSE 0

\* script.rs 284-294
clamp(val, f1, f2) ==
    LET raised == IF val < f1 THEN f1 ELSE val IN
    IF raised > f2 THEN f2 ELSE raised

\* script.rs 302-310: the source index computed for element i
rotate_index(i, theta, sizes) ==
    LET x == i \div sizes[1]
        y == i \div sizes[2]
        tx == cos(theta) * x - sin(theta) * y
        ty == sin(theta) * x + cos(theta) * y
        idx == tx * sizes[1] + ty IN
    clamp(idx, 0, sizes[1] * sizes[2])

\* script.rs 296-317: result[i] = map[idx]; an index outside the slice panics
\* (the maps of the model are indexed from 1)
rotate(map, theta, sizes) ==
    IF \E i \in 0 .. Len(map) - 1 : rotate_index(i, theta, sizes) >= Len(map)
    THEN [returned |-> FALSE, panicked |-> TRUE, map |-> <<>>]
    ELSE [returned |-> TRUE, panicked |-> FALSE,
          map |-> [i \in 1 .. Len(map) |->
                      map[rotate_index(i - 1, theta, sizes) + 1]]]

\* maps of n elements: all distinct, or two alternating values
MapsOfLen(n) == {[i \in 1 .. n |-> 10 + i], [i \in 1 .. n |-> 20 + (i % 2)]}

\* the calls studied: every map has cols * rows elements
RotateInputs ==
    {[map |-> m, theta |-> q, sizes |-> <<c, r>>] :
        c \in 1 .. MaxSide, r \in 1 .. MaxSide, q \in Thetas,
        m \in UNION {MapsOfLen(a * b) : a \in 1 .. MaxSide, b \in 1 .. MaxSide}}

\* script.rs 801-804: a script calls rotate
CallRotate ==
    /\ rotate_args # NoArgs
    /\ rotate_result = NoResult
    /\ rotate_result' = rotate(rotate_args.map, rotate_args.theta, rotate_args.sizes)
    /\ UNCHANGED <<INTERNAL_EVENT_OBSERVERS, last_notify, rotate_args, color_args,
                   color_result, hostVars>>

\* ---------------------------------------------------------------- specification
Next ==
    \/ CompTick
    \/ CompKey
    \/ CompKeyDone
    \/ CompRealize
    \/ CompPresent
    \/ CompPresentEnd
    \/ ReaderKey
    \/ ReaderMirror
    \/ MacroMirrorKey
    \/ MacroInjectKey
    \/ \E s \in Scripts : ScriptTick(s)
    \/ \E s \in Scripts : ScriptRealizeColorMap(s)
    \/ \E s \in Scripts : ScriptKeyDown(s)
    \/ \E s \in Scripts : ScriptKeyUp(s)
    \/ \E s \in Scripts : CallInjectKey(s)
    \/ \E s \in Scripts : HandlerReturn(s)
    \/ \E s \in Scripts : HandlerError(s)

Spec == Init /\ [][Next]_vars

\* the keyboard is idle: ticks and barriers only
NextTick ==
    \/ CompTick
    \/ CompRealize
    \/ CompPresent
    \/ CompPresentEnd
    \/ MacroInjectKey
    \/ \E s \in Scripts : ScriptTick(s)
    \/ \E s \in Scripts : ScriptRealizeColorMap(s)
    \/ \E s \in Scripts : CallInjectKey(s)
    \/ \E s \in Scripts : HandlerReturn(s)
    \/ \E s \in Scripts : HandlerError(s)

SpecTick == InitAll /\ [][NextTick]_vars

\* between two ticks: key events only
NextKeys ==
    \/ CompKey
    \/ CompKeyDone
    \/ ReaderKey
    \/ ReaderMirror
    \/ MacroMirrorKey
    \/ MacroInjectKey
    \/ \E s \in Scripts : ScriptKeyDown(s)
    \/ \E s \in Scripts : ScriptKeyUp(s)
    \/ \E s \in Scripts : CallInjectKey(s)
    \/ \E s \in Scripts : HandlerReturn(s)
    \/ \E s \in Scripts : HandlerError(s)

SpecKeys == InitAll /\ [][NextKeys]_vars

\* one or two scripts are loaded, at some brightness; one tick is followed
InitFrame ==
    \E loaded \in {{1}, Scripts}, brightness \in Brightness :
        InitWith(loaded, loaded, brightness, 1)

\* the scripts draw: ticks, barriers and the frame callbacks
NextFrame ==
    \/ CompTick
    \/ CompRealize
    \/ CompPresent
    \/ CompPresentEnd
    \/ \E s \in Scripts : ScriptTick(s)
    \/ \E s \in Scripts : ScriptRealizeColorMap(s)
    \/ \E s \in Scripts : HandlerReturn(s)
    \/ \E s \in Scripts : CallSubmitColorMap(s)
    \/ \E s \in Scripts : CallSetColorMap(s)
    \/ \E s \in Scripts : CallSetKeyColor(s)
    \/ \E s \in Scripts : CallGetKeyColor(s)
    \/ \E s \in Scripts : CallGetColorMap(s)
    \/ \E s \in Scripts : CallbackReturns(s)

SpecFrame == InitFrame /\ [][NextFrame]_vars

\* the script threads have been spawned and registered, none has evaluated
\* its script yet; script 1, or every script, defines on_startup
InitStartup ==
    \E handlers \in {{1}, Scripts} :
        InitState(handlers, Scripts, 100, 1, "start", "loop")

\* scripts start while the compositor ticks
NextStartup ==
    \/ CompTick
    \/ CompRealize
    \/ CompPresent
    \/ CompPresentEnd
    \/ \E s \in Scripts : ScriptStart(s)
    \/ \E s \in Scripts : ScriptTick(s)
    \/ \E s \in Scripts : ScriptRealizeColorMap(s)
    \/ \E s \in Scripts : HandlerReturn(s)
    \/ \E s \in Scripts : HandlerError(s)
    \/ \E s \in Scripts : CallSetKeyColor(s)
    \/ \E s \in Scripts : CallbackReturns(s)

SpecStartup == InitStartup /\ [][NextStartup]_vars

\* the macro thread has been spawned and the sender published; the scripts
\* are in their event loops
InitShutdown == InitState(Scripts, Scripts, 100, MaxTicks, "recv", "init")

\* the macro thread from its start to its end, the scripts up to their unload
NextShutdown ==
    \/ CompTick
    \/ CompRealize
    \/ CompPresent
    \/ CompPresentEnd
    \/ MacroInit
    \/ MacroInjectKey
    \/ MacroDisconnected
    \/ SupervisorUnload
    \/ DropSender
    \/ \E s \in Scripts : ScriptTick(s)
    \/ \E s \in Scripts : ScriptRealizeColorMap(s)
    \/ \E s \in Scripts : ScriptUnload(s)
    \/ \E s \in Scripts : CallInjectKey(s)
    \/ \E s \in Scripts : HandlerReturn(s)
    \/ \E s \in Scripts : HandlerError(s)

SpecShutdown == InitShutdown /\ [][NextShutdown]_vars

\* the event bus alone
NextEvents ==
    \/ RegisterObserver
    \/ NotifyObservers

SpecEvents == Init /\ [][NextEvents]_vars

\* one call of rotate, on a map of cols * rows elements
InitRotate ==
    /\ InitCore({1}, Scripts, 100, MaxTicks, "recv", "loop")
    /\ rotate_args \in {a \in RotateInputs :
                            Len(a.map) = a.sizes[1] * a.sizes[2]}
    /\ color_args = NoColorArgs

NextRotate == CallRotate

SpecRotate == InitRotate /\ [][NextRotate]_vars

\* one conversion of four channels to a colour and back
InitColor ==
    /\ InitCore({1}, Scripts, 100, MaxTicks, "recv", "loop")
    /\ rotate_args = NoArgs
    /\ color_args \in Bytes \X Bytes \X Bytes \X Bytes

NextColor == CallColorRoundTrip

SpecColor == InitColor /\ [][NextColor]_vars

\* the blend followed pixel by pixel, next to the frame callbacks and a
\* thread that changes the brightness; one tick, script 1 defines handlers
InitBlend == InitWith({1}, Scripts, 100, 1)

NextBlend ==
    \/ CompTick
    \/ CompRealize
    \/ CompPresent
    \/ CompPresentEnd
    \/ SetBrightness
    \/ \E s \in Scripts : ScriptTick(s)
    \/ \E s \in Scripts : HandlerReturn(s)
    \/ \E s \in Scripts : BlendBegin(s)
    \/ \E s \in Scripts : BlendPixel(s)
    \/ \E s \in Scripts : BlendEnd(s)
    \/ \E s \in Scripts : CallSetKeyColor(s)
    \/ \E s \in Scripts : CallGetColorMap(s)
    \/ \E s \in Scripts : CallbackReturns(s)

SpecBlend == InitBlend /\ [][NextBlend]_vars

\* key events while scripts are loaded, fail and are unloaded: script 1 is
\* in its event loop, script 2 is not loaded yet
InitKeyLife == InitState(Scripts, {1}, 100, 0, "recv", "loop")

NextKeyLife ==
    \/ CompKey
    \/ CompKeyDone
    \/ ReaderKey
    \/ ReaderMirror
    \/ SupervisorUnload
    \/ \E s \in Scripts : LoadScript(s)
    \/ \E s \in Scripts : ScriptStart(s)
    \/ \E s \in Scripts : ScriptKeyDown(s)
    \/ \E s \in Scripts : ScriptKeyUp(s)
    \/ \E s \in Scripts : ScriptUnload(s)
    \/ \E s \in Scripts : HandlerReturn(s)
    \/ \E s \in Scripts : HandlerError(s)

SpecKeyLife == InitKeyLife /\ [][NextKeyLife]_vars

\* ticks during which scripts inject key codes, valid or not
NextInvalid ==
    \/ CompTick
    \/ CompRealize
    \/ CompPresent
    \/ CompPresentEnd
    \/ MacroInjectKey
    \/ \E s \in Scripts : ScriptTick(s)
    \/ \E s \in Scripts : ScriptRealizeColorMap(s)
    \/ \E s \in Scripts : CallInjectKey(s)
    \/ \E s \in Scripts : CallInjectInvalidKey(s)
    \/ \E s \in Scripts : HandlerReturn(s)
    \/ \E s \in Scripts : HandlerError(s)

SpecInvalid == InitAll /\ [][NextInvalid]_vars

\* scripts whose control channel loses its sender while they run; one tick
InitOrphan == InitWith(Scripts, Scripts, 100, 1)

ScriptStep(s) ==
    \/ ScriptTick(s)
    \/ ScriptRealizeColorMap(s)
    \/ HandlerReturn(s)
    \/ HandlerError(s)
    \/ ScriptRecvDisconnected(s)
    \/ ScriptLoopAgain(s)

NextOrphan ==
    \/ CompTick
    \/ CompRealize
    \/ CompPresent
    \/ CompPresentEnd
    \/ \E s \in Scripts : DropControlChannel(s)
    \/ \E s \in Scripts : ScriptStep(s)

\* every thread that can run does run (the operating system's scheduler)
SpecOrphan ==
    /\ InitOrphan
    /\ [][NextOrphan]_vars
    /\ \A s \in Scripts : WF_vars(ScriptStep(s))
    /\ WF_vars(CompTick \/ CompRealize \/ CompPresent \/ CompPresentEnd)

\* ---------------------------------------------------------------- properties
IsPrefix(p, q) == Len(p) <= Len(q) /\ SubSeq(q, 1, Len(p)) = p

Count(q, kind) == Cardinality({i \in 1 .. Len(q) : q[i].kind = kind})

\* the Tick and RealizeColorMap messages of a sequence, in order
TickProj(q) == SelectSeq(q, LAMBDA m : m.kind \in {"Tick", "RealizeColorMap"})

\* the i-th message of the tick protocol: Tick(1), RealizeColorMap, Tick(2), ...
TickProtocol(i) == IF i % 2 = 1 THEN Tick((i + 1) \div 2) ELSE RealizeColorMap

\* this step is the macro thread handling the oldest command, of this kind
MacroStepOn(kind) ==
    /\ MacroCanRecv(kind)
    /\ \/ uinput_q' = Tail(uinput_q)
       \/ macro_pc' = "panicked"

\* events on the virtual device that carry the timestamp of physical event k
WrittenFor(k) == {i \in 1 .. Len(device_out) : device_out[i].time = k}

\* some script called inject_key while handling physical event k
InjectedFor(k) ==
    \E e \in inject_log : e.upcall \in {"on_key_down", "on_key_up"} /\ e.ev = k

AllQuiet == \A s \in Scripts : script_pc[s] = "recv" /\ lua_q[s] = <<>>

\* C1: a Mirror command that was enqueued while DROP_CURRENT_KEY was true is
\* never written to the virtual device, whatever the flag is when the macro
\* thread dequeues it
C1_MirrorGatedAtEnqueue ==
    [][(MacroStepOn("MirrorKey") /\ Head(uinput_q).gate)
         => device_out' = device_out]_vars

\* C2: when the macro thread handles Mirror(raw) with DROP_CURRENT_KEY true,
\* nothing is written and the flag stays true; with the flag false, exactly
\* raw is appended, unchanged (or write_event fails, nothing is written and
\* the thread panics)
C2_MirrorAtDequeue ==
    [][MacroStepOn("MirrorKey") =>
         IF DROP_CURRENT_KEY
         THEN /\ device_out' = device_out
              /\ DROP_CURRENT_KEY'
              /\ macro_pc' = "loop"
         ELSE \/ /\ device_out' = Append(device_out, Head(uinput_q).raw)
                 /\ macro_pc' = "loop"
              \/ /\ device_out' = device_out
                 /\ macro_pc' = "panicked"]_vars

\* the Mirror of event 1 was dropped and the Mirror of event 2 was written
\* verbatim
C2_Witness ==
    /\ reader_n = 2
    /\ reader_pending = NoEvent
    /\ uinput_q = <<>>
    /\ macro_pc = "loop"
    /\ InjectedFor(1)
    /\ WrittenFor(1) = {}
    /\ \E i \in WrittenFor(2) : device_out[i] = RawKey(HwEvent(2)[1], HwEvent(2)[2], 2)

\* C3: DROP_CURRENT_KEY is true only in the window opened by an inject_key
\* call made in an on_key_down/on_key_up upcall of the key event the
\* compositor is handling, and closed when the compositor ends that event
C3_DropOnlyInKeyWindow ==
    DROP_CURRENT_KEY => (comp_pc = "wait_key" /\ InjectedFor(comp_key.time))

\* the compositor has closed every physical event older than event k
EarlierClosed(k) ==
    /\ comp_key.time \notin 1 .. (k - 1)
    /\ \A i \in 1 .. Len(comp_inbox) : comp_inbox[i].raw.time >= k

\* C4: a Mirror command published while the gate is clear, for a physical
\* event in whose upcalls no script called inject_key, is written to the
\* virtual device (or the write itself fails) once the upcalls of every
\* earlier event have completed
C4_UninjectedKeyMirrored ==
    [][(/\ MacroStepOn("MirrorKey")
        /\ ~Head(uinput_q).gate
        /\ EarlierClosed(Head(uinput_q).raw.time)
        /\ ~InjectedFor(Head(uinput_q).raw.time))
         => \/ device_out' = Append(device_out, Head(uinput_q).raw)
            \/ macro_pc' = "panicked"]_vars

\* C5: DROP_CURRENT_KEY is false when the compositor broadcasts KeyDown or
\* KeyUp, and it is reset only by the compositor, after every script that
\* was sent the message has completed its upcall
C5_GateClearAtBroadcast ==
    [][/\ (comp_pc # "wait_key" /\ comp_pc' = "wait_key") => ~DROP_CURRENT_KEY
       /\ (DROP_CURRENT_KEY /\ ~DROP_CURRENT_KEY') =>
              /\ comp_pc = "wait_key" /\ comp_pc' # "wait_key"
              /\ \A s \in ACTIVE_SCRIPTS :
                     ~InKeyUpcall(s) /\ Count(lua_q[s], "KeyDown") = 0
                                     /\ Count(lua_q[s], "KeyUp") = 0]_vars

\* scenario S2 has run to its end: one physical event, KeyDown(30) and its
\* Mirror were published, one on_key_down upcall called inject_key(42, true),
\* every upcall returned, the compositor closed the event, the macro thread
\* handled every command
S2_Done ==
    /\ reader_n = 1
    /\ reader_pending = NoEvent
    /\ comp_inbox = <<>>
    /\ comp_pc = "idle"
    /\ AllQuiet
    /\ uinput_q = <<>>
    /\ macro_pc = "loop"
    /\ \E s \in Scripts :
         inject_log = {[s |-> s, upcall |-> "on_key_down", ev |-> 1, n |-> 1,
                        key |-> 42, down |-> TRUE]}

\* C6: at the end of scenario S2 the virtual device has received exactly the
\* EV_KEY event code 42 value 1 and its SYN_REPORT, and no event with code 30
C6_S2KeySubstitution ==
    S2_Done =>
        \E time \in GetTimeOfDay :
            device_out = <<RawKey(42, 1, time), SynReport(1, time)>>

\* C7: every script processes the messages in the order they were sent, none
\* twice and none skipped; an active script has received every message sent;
\* the Tick and RealizeColorMap messages it processed are Tick(1),
\* RealizeColorMap, Tick(2), RealizeColorMap, ...
C7_TickOrder ==
    \A s \in Scripts :
        /\ IsPrefix(processed[s], bcast)
        /\ s \in ACTIVE_SCRIPTS => processed[s] \o lua_q[s] = bcast
        /\ \A i \in 1 .. Len(TickProj(processed[s])) :
               TickProj(processed[s])[i] = TickProtocol(i)

\* a script has processed both messages of two ticks
C7_Witness ==
    \E s \in ACTIVE_SCRIPTS :
        TickProj(processed[s]) = <<Tick(1), RealizeColorMap, Tick(2), RealizeColorMap>>

\* C8: the compositor broadcasts a Tick or a RealizeColorMap only when no
\* active script still has an earlier RealizeColorMap to process
C8_OneBarrierInFlight ==
    [][(bcast' # bcast /\ bcast'[Len(bcast')].kind \in {"Tick", "RealizeColorMap"})
         => \A s \in ACTIVE_SCRIPTS : Count(lua_q[s], "RealizeColorMap") = 0]_vars

\* C9: while the compositor waits on the barrier, once every script has
\* processed the RealizeColorMap the counter is zero
C9_BarrierDrains ==
    (/\ comp_pc = "wait_barrier"
     /\ \A s \in Scripts :
            Count(processed[s], "RealizeColorMap") = Count(bcast, "RealizeColorMap"))
        => COLOR_MAPS_READY_CONDITION = 0

\* C10: while the compositor waits for the key upcalls, once every script has
\* either finished the upcall or terminated with a handler error, the
\* completion counter is zero
C10_ErrorReleasesLatch ==
    (/\ comp_pc = "wait_key"
     /\ \A s \in Scripts :
            \/ script_pc[s] = "failed"
            \/ script_pc[s] = "recv" /\ lua_q[s] = <<>>)
        => KeyLatch = 0

\* this step is script s blending its local frame into the global frame
BlendStep(s) ==
    /\ Len(processed'[s]) = Len(processed[s]) + 1
    /\ processed'[s][Len(processed'[s])] = RealizeColorMap

Acked(s) == Count(processed[s], "RealizeColorMap") = Count(bcast, "RealizeColorMap")

clip8(v) == IF v > 255 THEN 255 ELSE v

\* x / d, rounded down or rounded half up, saturated to 8 bits
Quotients(x, d) == {clip8(x \div d), clip8((2 * x + d) \div (2 * d))}

RGB == {"r", "g", "b"}

C12_BlendInRegistrationOrder ==
    [][\A s \in Scripts :
         BlendStep(s) => \A r \in ACTIVE_SCRIPTS : r < s => Acked(r)]_vars

\* C13: a blend leaves in every pixel i and channel c the value
\* clip8((fg.a * fg.c + (255 - fg.a) * bg.c) * brightness / (255 * 100)),
\* rounded down or to nearest, and the alpha fg.a
C13_BlendRule ==
    [][\A s \in Scripts :
         BlendStep(s) =>
           \A i \in Keys :
             LET fg == LOCAL_LED_MAP[s][i]
                 bg == LED_MAP[i] IN
             /\ LED_MAP'[i].a = fg.a
             /\ \A c \in RGB :
                  LED_MAP'[i][c] \in
                    Quotients((fg.a * fg[c] + (255 - fg.a) * bg[c]) * BRIGHTNESS,
                              255 * 100)]_vars

\* C14: a blend of a local frame whose pixels all have alpha 0 leaves every
\* colour channel of the global frame at its old value scaled by
\* brightness / 100, so unchanged at brightness 100
C14_TransparentBlend ==
    [][\A s \in Scripts :
         (BlendStep(s) /\ \A i \in Keys : LOCAL_LED_MAP[s][i].a = 0) =>
           \A i \in Keys, c \in RGB :
             LED_MAP'[i][c] \in Quotients(LED_MAP[i][c] * BRIGHTNESS, 100)]_vars

\* C15: with one active script, its blend leaves in every pixel whose local
\* alpha is 255 the colour channels of the local pixel scaled by
\* brightness / 100
C15_OpaqueBlend ==
    [][\A s \in Scripts :
         (BlendStep(s) /\ ACTIVE_SCRIPTS = {s}) =>
           \A i \in Keys :
             LOCAL_LED_MAP[s][i].a = 255 =>
               \A c \in RGB :
                 LED_MAP'[i][c] \in
                   Quotients(LOCAL_LED_MAP[s][i][c] * BRIGHTNESS, 100)]_vars

\* this step is a script entering the frame callback fn
CallStep(fn) == ncalls' = ncalls + 1 /\ last_call'.fn = fn

\* the pixel a packed colour stands for: a = bits 24..31, r = bits 16..23,
\* g = bits 8..15, b = bits 0..7
Channels(c) ==
    [r |-> c[1] % 256, g |-> c[2] \div 256, b |-> c[2] % 256, a |-> c[1] \div 256]

\* C16: send_led_map is never executing in two threads at once
C16_PresentExclusive == Cardinality(presenting) <= 1

\* C17: when set_color_map(map) returns, every pixel i of the global frame,
\* the last one included, holds the channels of map[i], and the frame handed
\* to send_led_map during the call is that frame
C17_SetColorMapReplaces ==
    [][\A s \in Scripts :
         (call[s].fn = "set_color_map" /\ call'[s] = NoCall) =>
           /\ LED_MAP = [i \in Keys |-> Channels(call[s].map[i])]
           /\ call[s].frame = LED_MAP]_vars

\* C18: when submit_color_map(map) returns, every pixel i of the caller's
\* local frame, the last one included, holds the channels of map[i]
C18_SubmitReplacesLocal ==
    [][CallStep("submit_color_map") =>
         LOCAL_LED_MAP'[last_call'.s] =
             [i \in Keys |-> Channels(last_call'.map[i])]]_vars

\* C19: submit_color_map changes the caller's local frame and nothing else:
\* not the global frame, not another script's local frame, and nothing is
\* presented; the global frame changes only by a blend, which stores the
\* blend of that script's local frame, or by set_key_color / set_color_map
C19_SubmitIsLocal ==
    [][/\ CallStep("submit_color_map") =>
            /\ LED_MAP' = LED_MAP
            /\ \A r \in Scripts \ {last_call'.s} :
                   LOCAL_LED_MAP'[r] = LOCAL_LED_MAP[r]
            /\ presenting' = presenting
            /\ presented' = presented
            /\ call' = call
            /\ LED_MAP_lock' = LED_MAP_lock
       /\ LED_MAP' # LED_MAP =>
            \/ \E s \in Scripts :
                   /\ BlendStep(s)
                   /\ LED_MAP' = blend(LED_MAP, LOCAL_LED_MAP[s], BRIGHTNESS)
            \/ CallStep("set_key_color")
            \/ CallStep("set_color_map")]_vars

\* the one callback made was a submit_color_map, and its colours have
\* reached the global frame through the caller's blend
C19_Witness ==
    /\ ncalls = 1
    /\ last_call.fn = "submit_color_map"
    /\ Acked(last_call.s)
    /\ LED_MAP[0].a = Channels(last_call.map[0]).a
    /\ LED_MAP # NewFrame

\* C20: get_key_color(idx) returns the packed colour of pixel idx of the
\* global frame (with the pixel's alpha, or alpha 0 or 255) and changes no
\* state
C20_GetKeyColorReads ==
    [][CallStep("get_key_color") =>
         LET p == LED_MAP[last_call'.idx] IN
         /\ last_call'.ret \in {rgba_to_color(p.r, p.g, p.b, alpha) :
                                   alpha \in {p.a, 0, 255}}
         /\ UNCHANGED <<frameVars, LED_MAP_lock, call, presenting, presented>>]_vars

\* C21: get_color_map returns, for every global pixel i, the colour packed in
\* the layout set_color_map unpacks (a << 24 | r << 16 | g << 8 | b), read
\* from one snapshot of the global frame, so that unpacking the returned map
\* gives the global frame back.
C21_GetColorMapRoundTrip ==
    [][CallStep("get_color_map") =>
         /\ \A i \in Keys :
              last_call'.map[i] = rgba_to_color(LED_MAP[i].r, LED_MAP[i].g,
                                                LED_MAP[i].b, LED_MAP[i].a)
         /\ [i \in Keys |-> Channels(last_call'.map[i])] = LED_MAP
         /\ LED_MAP' = LED_MAP]_vars

\* C22: the macro thread handles an Inject command by writing EV_KEY for the
\* code, with value 1 for down and 0 for up, and then SYN_REPORT, both with
\* one timestamp read from the clock, which is no physical event's timestamp;
\* it does so whatever DROP_CURRENT_KEY is. (A failing write ends the thread
\* after at most the EV_KEY event.)
C22_InjectWritesKeyThenSyn ==
    [][MacroStepOn("InjectKey") =>
         LET m == Head(uinput_q)
             value == IF m.down THEN 1 ELSE 0 IN
         \/ /\ macro_pc' = "loop"
            /\ \E time \in GetTimeOfDay :
                 /\ device_out' = device_out \o <<RawKey(m.key, value, time),
                                                  SynReport(value, time)>>
                 /\ \A k \in 1 .. MaxKeys : time # k
         \/ /\ macro_pc' = "panicked"
            /\ \/ device_out' = device_out
               \/ \E time \in GetTimeOfDay :
                    device_out' = Append(device_out, RawKey(m.key, value, time))]_vars

\* a key release was injected while DROP_CURRENT_KEY was set
C22_Witness ==
    /\ DROP_CURRENT_KEY
    /\ macro_pc = "loop"
    /\ \E i \in 1 .. Len(device_out) - 1 :
         /\ device_out[i] = RawKey(42, 0, 100)
         /\ device_out[i + 1] = SynReport(0, 100)

\* C23: on the virtual device every EV_KEY event, mirrored or injected, is
\* immediately followed by a SYN_REPORT with the same timestamp (checked
\* whenever the macro thread is between two commands).
C23_KeyFollowedBySyn ==
    macro_pc = "loop" =>
        \A i \in 1 .. Len(device_out) :
            device_out[i].type = "EV_KEY" =>
                /\ i < Len(device_out)
                /\ device_out[i + 1].type = "EV_SYN"
                /\ device_out[i + 1].time = device_out[i].time

\* C24: handling a Mirror command, or an Inject command for a valid key code,
\* never stops the macro thread, whether the writes succeed or fail: the
\* thread stays in its loop and the commands behind stay in the channel.
C24_WriteFailureSurvived ==
    [][(\/ MacroStepOn("MirrorKey")
        \/ MacroStepOn("InjectKey") /\ int_to_ev_key_ok(Head(uinput_q).key)) =>
         /\ macro_pc' = "loop"
         /\ uinput_q' = Tail(uinput_q)]_vars

\* C27: a script that defines on_startup enters it exactly once, right after
\* its body was evaluated and before it handles any control message (so a
\* present made inside on_startup comes before the first Tick is handled);
\* an error raised by on_startup ends run_script with an error and the event
\* loop is never entered.
C27_StartupOnceBeforeLoop ==
    [][\A s \in Scripts :
         /\ script_pc'[s] = "start" => script_pc[s] = "start"
         /\ (script_pc'[s] = "on_startup" /\ script_pc[s] # "on_startup") =>
                script_pc[s] = "start"
         /\ (script_pc[s] = "start" /\ script_pc'[s] \notin {"start", "failed"}) =>
                script_pc'[s] = IF StartupDefined(s) THEN "on_startup" ELSE "recv"
         /\ script_pc'[s] \in {"start", "on_startup"} => processed'[s] = <<>>
         /\ processed'[s] # processed[s] => script_pc[s] = "recv"
         /\ (script_pc[s] = "on_startup" /\ script_pc'[s] # "on_startup") =>
                \/ script_pc'[s] = "recv"
                \/ script_pc'[s] = "failed" /\ processed'[s] = <<>>
         /\ script_pc[s] = "failed" =>
                script_pc'[s] = "failed" /\ processed'[s] = processed[s]]_vars

\* script 1 presents from inside on_startup while Tick(1) waits in its channel
C27_Witness ==
    /\ script_pc[1] = "on_startup"
    /\ call[1].fn = "set_key_color"
    /\ 1 \in presenting
    /\ presented = call[1].frame
    /\ lua_q[1] # <<>>
    /\ Head(lua_q[1]) = Tick(1)
    /\ processed[1] = <<>>

\* C25: when the macro channel is empty and its sender has been dropped, the
\* macro thread leaves its loop by a normal return, the virtual device is
\* released and nothing is written.
C25_MacroReturnsOnDisconnect ==
    [][(macro_pc = "loop" /\ ~UINPUT_TX /\ uinput_q = <<>> /\ macro_pc' # "loop") =>
         /\ macro_pc' = "returned"
         /\ ~DEVICE'
         /\ device_out' = device_out]_vars

\* C26: if the creation of the virtual device failed, no macro sender is
\* published and no script thread is ended by a call of inject_key.
C26_CreateFailureContained ==
    macro_pc = "init_panicked" =>
        /\ ~UINPUT_TX
        /\ \A s \in Scripts : script_pc[s] # "panicked"

\* C28: a script thread that takes Unload from its channel ends at once with
\* TerminatedGracefully, without entering a handler; what it has processed by
\* then is exactly what was sent up to the Unload, in the order sent, and it
\* processes nothing afterwards.
C28_UnloadTerminates ==
    [][\A s \in Scripts :
         /\ (CanRecv(s, "Unload") /\ processed'[s] # processed[s]) =>
                /\ script_pc'[s] = "terminated"
                /\ cur'[s] = NoMsg
                /\ lua_q'[s] = <<>>
         /\ script_pc'[s] = "terminated" =>
                LET n == Len(processed'[s]) IN
                /\ n >= 1
                /\ processed'[s] = SubSeq(bcast', 1, n)
                /\ processed'[s][n] = Unload
                /\ \A i \in 1 .. n - 1 : processed'[s][i] # Unload
         /\ script_pc[s] = "terminated" =>
                script_pc'[s] = "terminated" /\ processed'[s] = processed[s]]_vars

\* script 1 handled Tick(1) and the Unload and has terminated; the
\* RealizeColorMap that was sent to it after the Unload was not processed
C28_Witness ==
    /\ script_pc[1] = "terminated"
    /\ processed[1] = <<Tick(1), Unload>>
    /\ Len(bcast) >= 3
    /\ SubSeq(bcast, 1, 3) = <<Tick(1), Unload, RealizeColorMap>>
    /\ COLOR_MAPS_READY_CONDITION = Cardinality(Scripts)

\* C29: notify_observers calls the observers in registration order, each at
\* most once, up to and including the first one that returns Err, and returns
\* that error; observers returning Ok(true) or Ok(false) never stop the
\* delivery, and without an error every observer is called and the result is Ok.
C29_NotifyStopsAtFirstError ==
    last_notify # NoNotify =>
        LET obs == last_notify.observers
            errs == {i \in 1 .. Len(obs) : obs[i] = "Err"}
            last == IF errs = {} THEN Len(obs)
                    ELSE CHOOSE i \in errs : \A j \in errs : i <= j IN
        /\ last_notify.invoked = [i \in 1 .. last |-> i]
        /\ last_notify.result =
               IF errs = {} THEN [ok |-> TRUE, by |-> 0] ELSE [ok |-> FALSE, by |-> last]
        /\ IsPrefix(obs, INTERNAL_EVENT_OBSERVERS)

\* the second of three observers fails: two were called, the third was not
C29_Witness ==
    /\ last_notify.observers = <<"Ok(false)", "Err", "Ok(true)">>
    /\ last_notify.invoked = <<1, 2>>
    /\ last_notify.result = [ok |-> FALSE, by |-> 2]

\* C30: for a map of cols * rows elements and any angle, rotate returns a map
\* of the same length whose elements are all elements of the input; it never
\* reads outside the map.
C30_RotateStaysInside ==
    rotate_result # NoResult =>
        /\ ~rotate_result.panicked
        /\ Len(rotate_result.map) = Len(rotate_args.map)
        /\ \A i \in 1 .. Len(rotate_result.map) :
              \E j \in 1 .. Len(rotate_args.map) :
                  rotate_result.map[i] = rotate_args.map[j]

\* C31: unpacking the colour packed from the channels r, g, b, a gives
\* (r, g, b, a) back.
C31_ColorRoundTrip ==
    color_result.done => color_result.rgba = color_args

\* four different channels went through the round trip
C31_Witness ==
    /\ color_result.done
    /\ color_args = <<255, 128, 1, 127>>
    /\ color_result.c = u32(127 * 256 + 255, 128 * 256 + 1)
    /\ color_result.rgba = <<255, 128, 1, 127>>

\* the scripts that, in this step, finish the handling of a message of this
\* kind: their handler returns, or they have no handler and take the message
FinishKey(kind, upcall) ==
    {s \in Scripts :
        \/ script_pc[s] = upcall /\ script_pc'[s] = "recv"
        \/ /\ CanRecv(s, kind)
           /\ script_pc'[s] = "recv"
           /\ processed'[s] # processed[s]}

\* this step is the compositor setting the completion counters for a key event
SetsKeyCounters == comp_pc # "wait_key" /\ comp_pc' = "wait_key"

\* C32: a script takes one from the key-down (key-up) completion counter for
\* every KeyDown (KeyUp) message it handles, when its on_key_down (on_key_up)
\* handler has returned or when it has no such handler, and at no other
\* moment: not when it enters the handler, not while the handler runs, and
\* never from the counter of the other kind.
C32_OneCompletionPerKeyMessage ==
    [][~SetsKeyCounters =>
         /\ UPCALL_COMPLETED_ON_KEY_DOWN' = UPCALL_COMPLETED_ON_KEY_DOWN
                - Cardinality(FinishKey("KeyDown", "on_key_down"))
         /\ UPCALL_COMPLETED_ON_KEY_UP' = UPCALL_COMPLETED_ON_KEY_UP
                - Cardinality(FinishKey("KeyUp", "on_key_up"))]_vars

\* of two scripts that were sent KeyDown, one has completed (its counter part
\* is taken) and the other is still inside on_key_down
C32_Witness ==
    /\ comp_pc = "wait_key"
    /\ comp_key.value > 0
    /\ UPCALL_COMPLETED_ON_KEY_DOWN = 1
    /\ UPCALL_COMPLETED_ON_KEY_UP = 0
    /\ script_pc[1] = "recv" /\ lua_q[1] = <<>>
    /\ Len(processed[1]) = 1
    /\ script_pc[2] = "on_key_down"

\* C33: no script thread holds the mutex of the global frame while it is
\* inside send_led_map or in the settle sleep that follows it.
C33_LockNotHeldAcrossPresent ==
    \A s \in Scripts : call[s] # NoCall => LED_MAP_lock # s

\* C34: from the moment a script starts the blend of its local frame to the
\* moment it has blended the last pixel and let go of the global frame, no
\* other thread's step changes the global frame, starts or continues a blend
\* of its own, or enters set_key_color, set_color_map or get_color_map.
C34_BlendAtomic ==
    [][\A s \in Scripts :
         (script_pc[s] = "blend" /\ blend_idx'[s] = blend_idx[s]) =>
             /\ LED_MAP' = LED_MAP
             /\ \A o \in Scripts \ {s} :
                    /\ blend_idx'[o] = blend_idx[o]
                    /\ script_pc'[o] = "blend" => script_pc[o] = "blend"
             /\ ~CallStep("set_key_color")
             /\ ~CallStep("set_color_map")
             /\ ~CallStep("get_color_map")]_vars

\* script 2 has blended one pixel of two; script 1 is inside on_tick, about
\* to call a frame callback, and has its own RealizeColorMap still to handle
C34_Witness ==
    /\ script_pc[2] = "blend"
    /\ blend_idx[2] = 1
    /\ LED_MAP_lock = 2
    /\ Running(1)
    /\ ncalls < MaxCalls
    /\ lua_q[1] = <<RealizeColorMap>>

\* C35: all pixels of one blend are scaled by the same brightness value.
C35_OneBrightnessPerBlend ==
    \A s \in Scripts :
        \A i, j \in 1 .. Len(blend_used[s]) : blend_used[s][i] = blend_used[s][j]

C37_InvalidKeyRejected ==
    [][(MacroStepOn("InjectKey") /\ ~int_to_ev_key_ok(Head(uinput_q).key)) =>
         /\ macro_pc' = "loop"
         /\ device_out' = device_out
         /\ uinput_q' = Tail(uinput_q)]_vars

\* C38: a script whose control channel has lost every sender, no Unload
\* having been sent, eventually terminates.
C38_OrphanTerminates ==
    \A s \in Scripts : (s \notin lua_tx /\ script_pc[s] # "unloaded") ~> ThreadOver(s)

TypeOK ==
    /\ UPCALL_COMPLETED_ON_KEY_DOWN \in 0 .. Cardinality(Scripts)
    /\ UPCALL_COMPLETED_ON_KEY_UP \in 0 .. Cardinality(Scripts)
    /\ COLOR_MAPS_READY_CONDITION \in 0 .. Cardinality(Scripts)

====
